---- MODULE Spec2Model ----
(***************************************************************************)
(* Pitch-Perfect front end: the motion-gated frame buffer                  *)
(* (frontend/src/utils/frameBuffer.ts) and the inference coordinator of    *)
(* the application page (handleFrameCapture, handleStart, handleStop).     *)
(*                                                                         *)
(* Time is in milliseconds.  A motion score is kept as the exact fraction  *)
(* <<changedPixels, pixels>>; the comparison with motionThreshold is done  *)
(* in integers, motionThreshold being held in percent.                     *)
(***************************************************************************)
EXTENDS Integers, Sequences, FiniteSets, TLC

VARIABLES
    \* ---- FrameBuffer fields (frameBuffer.ts 14-19)
    buffer,                 \* FrameData[]
    maxFrames,              \* readonly, constructor argument
    frameInterval,          \* readonly, constructor argument
    motionThreshold,        \* readonly, constructor argument, in percent
    lastCaptureTime,
    hasSignificantMotion,
    \* ---- environment
    now,                    \* Date.now()
    video,                  \* the image the video element currently shows
    moves,                  \* number of scene changes so far
    \* ---- observation of the FrameBuffer calls
    last,                   \* the step just taken and what it returned
    accepted,               \* the last maxFrames frames appended by addFrame since
                            \* the last clear()
    moved,                  \* an appended frame exceeded the threshold since the
                            \* last clear() or resetMotionFlag()
    still,                  \* every frame appended since the last clear() had
                            \* score 0 against its predecessor
    padded,                 \* getFrames() has padded the buffer since the last clear()
    acceptTime,             \* when addFrame last appended a frame; 0: never
    resetSeen,              \* resetMotionFlag() has cleared a set flag since the
                            \* last clear()
    \* ---- ApplicationPage state and refs
    isCameraActive,
    prediction,
    isProcessing,
    error,
    audioTranscript,
    confidenceHistory,
    videoDimensions,
    keypoints,
    processingRef,
    lastProcessTimeRef,
    lastActionRef,
    timeCounterRef,
    \* ---- collaborators of the page
    prevLabel,              \* the label of the last classification result of the
                            \* session; "null": none yet
    inflight,               \* predictLive calls not yet settled, oldest first
    issued,                 \* number of predictLive calls made so far
    ttsCalls,               \* the calls of speakActionFeedback, oldest first
    audioStops,             \* number of stopAudio() calls
    teardown,               \* the steps of the deactivation that ended the last
                            \* session, in the order they ran
    ctxFailures,            \* number of times canvas.getContext('2d') gave null
    ttsFailures,            \* number of speakActionFeedback calls whose remote
                            \* and local playback both failed
    \* ---- CameraFeed
    loops,                  \* per activation: where its capture loop stands
    rafOwner,               \* the loop whose request id animationFrameRef holds; 0: null
    streaming,              \* the video element shows a running camera stream
    poseDetectionRef,
    lastPoseDetectionTime,
    \* ---- services/poseDetection.ts: the module state
    detector,               \* the PoseDetector held; 0: null
    isInitialized,
    initializationPromise,  \* the attempt whose promise is held; 0: null
    \* ---- ... and what runs against it
    attempts,               \* per run of the async initialisation body: where it
                            \* stands and what it has tried so far
    calls,                  \* per call of initializePoseDetector / detectPose:
                            \* where it stands and how it ended
    detectors,              \* every PoseDetector constructed so far, oldest first
    disposeCalls,           \* number of disposePoseDetector() calls
    \* ---- ttsService.ts: the module state
    currentAudio,           \* the Audio element held; 0: null
    isPlaying,
    \* ---- ... and what runs against it
    audios,                 \* every Audio element created so far, oldest first
    utterances,             \* every utterance given to speechSynthesis.speak
    speaks,                 \* per call of speakActionFeedback: where it stands
    synthSupported,         \* 'speechSynthesis' in window
    stops                   \* number of stopAudio() calls on the service

fbVars == <<buffer, maxFrames, frameInterval, motionThreshold, lastCaptureTime,
            hasSignificantMotion>>
envVars == <<now, video, moves>>
obsVars == <<last, accepted, moved, still, padded, acceptTime, resetSeen>>
pageVars == <<isCameraActive, prediction, isProcessing, error, audioTranscript,
              confidenceHistory, videoDimensions, keypoints, processingRef,
              lastProcessTimeRef, lastActionRef, timeCounterRef>>
collabVars == <<prevLabel, inflight, issued, ttsCalls, audioStops, teardown,
                ctxFailures, ttsFailures>>
feedVars == <<loops, rafOwner, streaming, poseDetectionRef, lastPoseDetectionTime>>
appVars == <<pageVars, collabVars, feedVars>>
poseVars == <<detector, isInitialized, initializationPromise, attempts, calls, detectors,
              disposeCalls>>
ttsVars == <<currentAudio, isPlaying, audios, utterances, speaks, synthSupported, stops>>
svcVars == <<poseVars, ttsVars>>
vars == <<fbVars, envVars, obsVars, appVars, svcVars>>

----------------------------------------------------------------------------
(* Bounds of the model *)

\* capacities the FrameBuffer is constructed with range over 1..MaxCap
MaxCap == 3
\* the clock stops advancing here
MaxTime == 1800
\* Date.now() at construction
StartTime == 1000
\* scene changes in front of the camera
MaxMoves == 2
\* activations of the camera (Start Camera clicks)
MaxSessions == 2
\* the capture loop stops being scheduled here
MaxPageTime == 2600
\* time from one animation frame to the next
TickMs == 200
\* failures of canvas.getContext('2d')
MaxCtxFailures == 0
\* ... and in the runs that follow the capture loop through errors
MaxLostContexts == 1
\* speakActionFeedback calls that fail on both paths
MaxTtsFailures == 1
\* the time at which those runs take up a session that is under way
LoopStart == 1800
\* runs of the initialisation body of the pose detector
MaxAttempts == 2
\* calls of initializePoseDetector and detectPose
MaxCalls == 2
\* calls of disposePoseDetector
MaxDisposes == 2
\* calls of speakActionFeedback
MaxSpeaks == 2
\* calls of stopAudio
MaxStops == 1
\* results a long session has already shown: up to HistStart
HistStart == 50
\* canvas size in pixels
ImgW == 2
ImgH == 2
\* pixels that differ between the two scenes the camera can show
MovedPixels == 1

(* Program constants *)

DefaultMaxFrames == 8
DefaultFrameInterval == 200
DefaultMotionThresholdPct == 15
PixelThreshold == 30
FRAME_INTERVAL_MS == 200
MAX_HISTORY_POINTS == 50
POSE_DETECTION_INTERVAL == 100

\* steps of the clock between two calls
ClockSteps == {100, 200}

----------------------------------------------------------------------------
(* Images *)

\* an ImageData of ImgW x ImgH pixels, one <<R, G, B>> per pixel: the first k
\* pixels are bright, the next j differ from the dark ones by 30 in grayscale
Img(k, j) ==
    [width |-> ImgW, height |-> ImgH,
     data |-> [i \in 1..(ImgW * ImgH) |->
                 IF i <= k THEN <<200, 190, 210>>
                 ELSE IF i <= k + j THEN <<40, 50, 30>>
                 ELSE <<10, 20, 0>>]]

\* the canvas drawn from a video without a stream: another size
SmallImg ==
    [width |-> ImgW - 1, height |-> ImgH,
     data |-> [i \in 1..((ImgW - 1) * ImgH) |-> <<0, 0, 0>>]]

\* what the camera can show
Images == {Img(0, 0), Img(MovedPixels, 0)}
\* the frames offered to a FrameBuffer driven on its own
FBImages == {Img(0, 0), Img(0, 1), Img(MovedPixels, 0)}

\* the dark image with its first pixel replaced by a red one of value v
RedDot(v) ==
    [width |-> ImgW, height |-> ImgH,
     data |-> [i \in 1..(ImgW * ImgH) |-> IF i = 1 THEN <<v, 0, 0>> ELSE <<10, 20, 0>>]]

\* the frames offered where the motion score is looked at: a pixel 30 apart
\* in grayscale from the dark one, a bright pixel, two red pixels whose
\* grayscale values 7/3 and 97/3 are 30 apart, and a frame of another size
MotionImages == {Img(0, 0), Img(0, 1), Img(MovedPixels, 0), RedDot(7), RedDot(97), SmallImg}

Abs(x) == IF x < 0 THEN -x ELSE x

RECURSIVE SumSeq(_)
SumSeq(s) == IF s = <<>> THEN 0 ELSE Head(s) + SumSeq(Tail(s))

\* canvas.toDataURL('image/jpeg', 0.8).split(',')[1]: the encoded frame, a
\* string determined by the pixels drawn
toDataURL(img) ==
    <<"jpeg", img.width, img.height,
      SumSeq([i \in 1..Len(img.data) |-> img.data[i][1] + img.data[i][2] + img.data[i][3]])>>

----------------------------------------------------------------------------
(* FrameBuffer *)

\* the binade of the double (R + G + B) / 3: sum / 3 lies in [2^(j-2), 2^(j-1))
GrayBinade(sum) == CHOOSE j \in 0..9 : 3 * 2^j <= 4 * sum /\ 4 * sum < 3 * 2^(j + 1)

\* what the division by 3 adds to sum / 3 by rounding to the nearest double,
\* in units of 1 / (3 * 2^54): nothing when 3 divides sum, else a third of
\* an ulp up or down, by the parity of the binade
GrayError(sum) ==
    IF sum = 0 THEN 0
    ELSE LET j == GrayBinade(sum)
             r == (sum * (IF j % 2 = 0 THEN 1 ELSE 2)) % 3
         IN  IF r = 0 THEN 0 ELSE IF r = 1 THEN -(2^j) ELSE 2^j

\* half an ulp of the doubles from 16 to 32, in units of 1 / 2^54: a
\* difference above 30 by no more than this rounds to 30
HalfUlpAtThreshold == 32

\* Math.abs(gray1 - gray2) > threshold with gray = (R + G + B) / 3 in double
\* arithmetic: decided by the sums, except when they differ by exactly
\* 3 * threshold, where the rounding of the two divisions decides
PixelChanged(p1, p2) ==
    LET s1 == p1[1] + p1[2] + p1[3]
        s2 == p2[1] + p2[2] + p2[3]
        hi == IF s1 >= s2 THEN s1 ELSE s2
        lo == IF s1 >= s2 THEN s2 ELSE s1
    IN  IF hi - lo # 3 * PixelThreshold
        THEN hi - lo > 3 * PixelThreshold
        ELSE GrayError(hi) - GrayError(lo) > 3 * HalfUlpAtThreshold

\* the score as the fraction <<changedPixels, pixels>>; 1.0 is <<1, 1>>
calculateMotion(frame1, frame2) ==
    IF frame1.width # frame2.width \/ frame1.height # frame2.height
    THEN <<1, 1>>
    ELSE <<Cardinality({i \in 1..Len(frame1.data) :
                          PixelChanged(frame1.data[i], frame2.data[i])}),
           Len(frame1.data)>>

\* motion > this.motionThreshold
ExceedsThreshold(motion, thresholdPct) ==
    motion[1] * 100 > thresholdPct * motion[2]

\* now - this.lastCaptureTime < this.frameInterval
Throttled == now - lastCaptureTime < frameInterval

FrameData(img) == [base64 |-> toDataURL(img), imageData |-> img, timestamp |-> now]

\* the score of img against the last buffered frame (buffer not empty)
MotionOf(img) == calculateMotion(buffer[Len(buffer)].imageData, img)

\* mutant: the first frame of an empty buffer counts as motion
MotionFlagFirstFrameCounts(img) ==
    IF Len(buffer) = 0 \/ ExceedsThreshold(MotionOf(img), motionThreshold)
    THEN TRUE
    ELSE hasSignificantMotion

\* mutant: the flag is assigned the motion of the newest pair, not latched
MotionFlagOfLastPair(img) ==
    Len(buffer) > 0 /\ ExceedsThreshold(MotionOf(img), motionThreshold)

\* hasSignificantMotion after the motion check of addFrame
MotionFlagAfter(img) ==
    IF Len(buffer) > 0 /\ ExceedsThreshold(MotionOf(img), motionThreshold)
    THEN TRUE
    ELSE hasSignificantMotion

\* mutant: the oldest frame is not dropped
PushKeepingAll(buf, fr, cap) == Append(buf, fr)

\* this.buffer.push(...); if (this.buffer.length > this.maxFrames) this.buffer.shift()
PushEvict(buf, fr, cap) ==
    LET pushed == Append(buf, fr)
    IN  IF Len(pushed) > cap THEN Tail(pushed) ELSE pushed

\* mutant: a full buffer is ready whether or not motion was seen
ReadyWhenFull(buf, flag, cap) == Len(buf) >= cap

\* the value addFrame returns once the frame is in the buffer
ReadyAfter(buf, flag, cap) == Len(buf) >= cap /\ flag

\* what a call addFrame(video) returns: "throttled" and "threw" stand for the
\* early return false and for the exception
addFrameOutcome(img, ctxOk) ==
    IF Throttled THEN "throttled"
    ELSE IF ~ctxOk THEN "threw"
    ELSE IF ReadyAfter(PushEvict(buffer, FrameData(img), maxFrames),
                       MotionFlagAfter(img), maxFrames)
         THEN "true" ELSE "false"

\* mutant: the capture time is stamped on every call, throttled or not
addFrameStampingEveryCall(img, ctxOk) ==
    /\ lastCaptureTime' = now
    /\ IF Throttled \/ ~ctxOk
       THEN UNCHANGED <<buffer, hasSignificantMotion>>
       ELSE /\ hasSignificantMotion' = MotionFlagAfter(img)
            /\ buffer' = PushEvict(buffer, FrameData(img), maxFrames)

\* the effect of addFrame(video) on the FrameBuffer
addFrame(img, ctxOk) ==
    IF Throttled
    THEN UNCHANGED <<buffer, lastCaptureTime, hasSignificantMotion>>
    ELSE /\ lastCaptureTime' = now
         /\ IF ~ctxOk
            THEN UNCHANGED <<buffer, hasSignificantMotion>>
            ELSE /\ hasSignificantMotion' = MotionFlagAfter(img)
                 /\ buffer' = PushEvict(buffer, FrameData(img), maxFrames)

\* mutant: the padding loop stops one frame short
PadFramesOneShort(buf, cap) ==
    IF Len(buf) < cap - 1 /\ Len(buf) > 0
    THEN buf \o [i \in 1..(cap - 1 - Len(buf)) |-> buf[Len(buf)]]
    ELSE buf

\* the buffer after the padding loop of getFrames
PadFrames(buf, cap) ==
    IF Len(buf) < cap /\ Len(buf) > 0
    THEN buf \o [i \in 1..(cap - Len(buf)) |-> buf[Len(buf)]]
    ELSE buf

\* this.buffer.map(frame => frame.base64)
Base64s(buf) == [i \in 1..Len(buf) |-> buf[i].base64]

isReady == Len(buffer) >= maxFrames /\ hasSignificantMotion

----------------------------------------------------------------------------
(* The FrameBuffer driven through its public methods *)

\* mutant: the reset also drops the buffered frames
resetMotionFlagDroppingFrames ==
    /\ hasSignificantMotion' = FALSE
    /\ buffer' = <<>>
    /\ UNCHANGED lastCaptureTime

\* this.hasSignificantMotion = false
resetMotionFlag ==
    /\ hasSignificantMotion' = FALSE
    /\ UNCHANGED <<buffer, lastCaptureTime>>

\* this.buffer = []; this.lastCaptureTime = 0; this.hasSignificantMotion = false
clear ==
    /\ buffer' = <<>>
    /\ lastCaptureTime' = 0
    /\ hasSignificantMotion' = FALSE

\* the in-place padding of getFrames
getFrames ==
    /\ buffer' = PadFrames(buffer, maxFrames)
    /\ UNCHANGED <<lastCaptureTime, hasSignificantMotion>>

\* what an observer records of a step: the method, what it returned, and for
\* addFrame whether the frame was appended and whether the call came less
\* than frameInterval after the last appended frame (ever, and since clear())
Obs(op, ret) ==
    [op |-> op, ret |-> ret, appended |-> FALSE, early |-> FALSE, earlyInCycle |-> FALSE]

ObsAdd(outcome) ==
    [op |-> "addFrame",
     ret |-> IF outcome = "throttled" THEN "false" ELSE outcome,
     appended |-> outcome \in {"true", "false"},
     early |-> acceptTime # 0 /\ now - acceptTime < DefaultFrameInterval,
     earlyInCycle |-> /\ accepted # <<>>
                      /\ now - accepted[Len(accepted)].timestamp < DefaultFrameInterval]

\* the last n entries of s
LastN(s, n) == IF Len(s) <= n THEN s ELSE SubSeq(s, Len(s) - n + 1, Len(s))

\* the bookkeeping of an addFrame call
ObserveAdd(img, outcome) ==
    /\ last' = ObsAdd(outcome)
    /\ IF outcome \in {"true", "false"}
       THEN /\ accepted' = LastN(Append(accepted, FrameData(img)), maxFrames)
            /\ acceptTime' = now
            /\ moved' = (moved \/ (Len(buffer) > 0
                                   /\ ExceedsThreshold(MotionOf(img), DefaultMotionThresholdPct)))
            /\ still' = (still /\ (Len(buffer) > 0 => MotionOf(img)[1] = 0))
            /\ UNCHANGED <<resetSeen>>
       ELSE UNCHANGED <<accepted, acceptTime, moved, still, resetSeen>>

\* ... of a getFrames call on buffer buf
ObservePad(buf) ==
    padded' = (padded \/ Len(PadFrames(buf, maxFrames)) # Len(buf))

\* ... of a resetMotionFlag call
ObserveReset ==
    /\ moved' = FALSE
    /\ resetSeen' = (resetSeen \/ hasSignificantMotion)
    /\ UNCHANGED <<accepted, acceptTime, still, padded>>

\* ... of a clear call
ObserveClear ==
    /\ accepted' = <<>>
    /\ moved' = FALSE
    /\ still' = TRUE
    /\ padded' = FALSE
    /\ resetSeen' = FALSE
    /\ UNCHANGED acceptTime

ObserveNothing == UNCHANGED <<accepted, acceptTime, moved, still, padded, resetSeen>>

----------------------------------------------------------------------------
(* services/poseDetection.ts *)

\* the model variants, in the order the initialisation body constructs them
Variants == <<"MoveNet Lightning", "MoveNet Thunder", "BlazePose Lite">>

\* no error; and the Error the initialisation body throws at its end: a fresh
\* Error with a fixed message, holding none of the errors it caught
NoError == [message |-> "", errors |-> <<>>]
InitializationError ==
    [message |-> "Failed to initialize pose detector. Please check your internet connection and try refreshing the page.",
     errors |-> <<>>]

NoAttempt == [pc |-> "unused", tried |-> <<>>, tfFailed |-> FALSE, reason |-> NoError]
NoCall == [kind |-> "none", pc |-> "unused", awaits |-> 0, on |-> 0, result |-> "pending",
           started |-> FALSE, busy |-> FALSE]

\* poseDetection.ts as loaded
PoseServiceInit ==
    /\ detector = 0
    /\ isInitialized = FALSE
    /\ initializationPromise = 0
    /\ attempts = [k \in 1..MaxAttempts |-> NoAttempt]
    /\ calls = [c \in 1..MaxCalls |-> NoCall]
    /\ detectors = <<>>
    /\ disposeCalls = 0

\* isInitialized && detector
Ready == isInitialized /\ detector # 0

\* an initialisation body that has not finished
Running(a) == a.pc \in {"tfReady", "MoveNet Lightning", "MoveNet Thunder", "BlazePose Lite"}
RunningAttempts == {k \in 1..MaxAttempts : Running(attempts[k])}

\* the detectors constructed and not disposed
Live == {d \in 1..Len(detectors) : ~detectors[d].disposed}

\* mutant: detectPose lets the rejection of the initialisation through
DetectOnInitRejectedRethrows == "rejected"

\* detectPose: catch (error) { return null } around await initializePoseDetector()
DetectOnInitRejected == "null"

\* a call that awaited an initialisation, when that initialisation has
\* settled (ok: resolved) and the detector variable holds det
Resumed(call, ok, det) ==
    IF call.kind = "initialize"
    THEN [call EXCEPT !.pc = "returned", !.result = IF ok THEN "void" ELSE "rejected"]
    ELSE IF ~ok
         THEN [call EXCEPT !.pc = "returned", !.result = DetectOnInitRejected]
         ELSE IF det = 0
              THEN [call EXCEPT !.pc = "returned", !.result = "null"]
              ELSE [call EXCEPT !.pc = "estimating", !.on = det]

\* the calls after initialisation k has settled: those awaiting it go on
CallsAfterSettled(k, ok, det) ==
    [c \in 1..MaxCalls |->
        IF calls[c].pc = "awaitInit" /\ calls[c].awaits = k
        THEN Resumed(calls[c], ok, det)
        ELSE calls[c]]

\* if (initializationPromise) return initializationPromise
HeldPromise == initializationPromise

\* the body of initializePoseDetector for call c of the given kind, entered
\* when the detector is not Ready: the promise held is returned, or a new
\* initialisation body is started, which runs up to await tf.ready()
EnterInitialization(c, kind) ==
    IF HeldPromise # 0
    THEN /\ calls' = [calls EXCEPT ![c] =
                         [NoCall EXCEPT !.kind = kind, !.pc = "awaitInit",
                                        !.awaits = HeldPromise,
                                        !.busy = RunningAttempts # {}]]
         /\ UNCHANGED <<attempts, initializationPromise>>
    ELSE \E k \in 1..MaxAttempts :
             /\ attempts[k].pc = "unused"
             /\ \A j \in 1..(k - 1) : attempts[j].pc # "unused"
             /\ attempts' = [attempts EXCEPT ![k] = [NoAttempt EXCEPT !.pc = "tfReady"]]
             /\ initializationPromise' = k
             /\ calls' = [calls EXCEPT ![c] =
                             [NoCall EXCEPT !.kind = kind, !.pc = "awaitInit",
                                            !.awaits = k, !.started = TRUE,
                                            !.busy = RunningAttempts # {}]]

\* a caller calls initializePoseDetector()
initializePoseDetector ==
    \E c \in 1..MaxCalls :
        /\ calls[c].pc = "unused"
        /\ \A j \in 1..(c - 1) : calls[j].pc # "unused"
        /\ IF Ready
           THEN /\ calls' = [calls EXCEPT ![c] =
                                [NoCall EXCEPT !.kind = "initialize", !.pc = "returned",
                                               !.result = "void",
                                               !.busy = RunningAttempts # {}]]
                /\ UNCHANGED <<attempts, initializationPromise>>
           ELSE EnterInitialization(c, "initialize")
        /\ UNCHANGED <<detector, isInitialized, detectors, disposeCalls>>
        /\ UNCHANGED <<ttsVars, fbVars, envVars, obsVars, appVars>>

\* a caller calls detectPose(video): up to its first await
detectPose ==
    \E c \in 1..MaxCalls :
        /\ calls[c].pc = "unused"
        /\ \A j \in 1..(c - 1) : calls[j].pc # "unused"
        /\ IF detector = 0 \/ ~isInitialized
           THEN EnterInitialization(c, "detect")
           ELSE /\ calls' = [calls EXCEPT ![c] =
                                [NoCall EXCEPT !.kind = "detect", !.pc = "estimating",
                                               !.on = detector,
                                               !.busy = RunningAttempts # {}]]
                /\ UNCHANGED <<attempts, initializationPromise>>
        /\ UNCHANGED <<detector, isInitialized, detectors, disposeCalls>>
        /\ UNCHANGED <<ttsVars, fbVars, envVars, obsVars, appVars>>

\* the variant constructed after variant v failed
NextVariant(v) == IF v = Variants[1] THEN Variants[2] ELSE Variants[3]

\* the initialisation body k goes on after one of its awaits: tf.ready() or
\* createDetector(...) resolved (ok) or rejected; the calls awaiting a body
\* that ends here go on in the same turn
AttemptSettles ==
    \E k \in 1..MaxAttempts, ok \in BOOLEAN :
        LET a == attempts[k] IN
        /\ Running(a)
        /\ IF a.pc = "tfReady"
           THEN /\ attempts' = [attempts EXCEPT ![k] =
                                   IF ok THEN [a EXCEPT !.pc = Variants[1]]
                                   ELSE [a EXCEPT !.pc = Variants[2], !.tfFailed = TRUE]]
                /\ initializationPromise' = IF ok THEN initializationPromise ELSE 0
                /\ UNCHANGED <<detector, isInitialized, detectors, calls>>
           ELSE IF ok
           THEN /\ detectors' = Append(detectors, [variant |-> a.pc, by |-> k,
                                                   disposed |-> FALSE])
                /\ detector' = Len(detectors) + 1
                /\ isInitialized' = TRUE
                /\ initializationPromise' =
                       IF a.pc = Variants[3] THEN initializationPromise ELSE 0
                /\ attempts' = [attempts EXCEPT ![k] =
                                   [a EXCEPT !.pc = "resolved",
                                             !.tried = Append(a.tried, [variant |-> a.pc,
                                                                         ok |-> TRUE])]]
                /\ calls' = CallsAfterSettled(k, TRUE, Len(detectors) + 1)
           ELSE IF a.pc # Variants[3]
           THEN /\ initializationPromise' = 0
                /\ attempts' = [attempts EXCEPT ![k] =
                                   [a EXCEPT !.pc = NextVariant(a.pc),
                                             !.tried = Append(a.tried, [variant |-> a.pc,
                                                                         ok |-> FALSE])]]
                /\ UNCHANGED <<detector, isInitialized, detectors, calls>>
           ELSE /\ attempts' = [attempts EXCEPT ![k] =
                                   [a EXCEPT !.pc = "rejected",
                                             !.reason = InitializationError,
                                             !.tried = Append(a.tried, [variant |-> a.pc,
                                                                         ok |-> FALSE])]]
                /\ calls' = CallsAfterSettled(k, FALSE, detector)
                /\ UNCHANGED <<detector, isInitialized, initializationPromise, detectors>>
        /\ UNCHANGED disposeCalls
        /\ UNCHANGED <<ttsVars, fbVars, envVars, obsVars, appVars>>

\* detectPose after await detector.estimatePoses(...): keypoints of the first
\* pose, null when there is none, null when it threw
EstimateSettles ==
    \E c \in 1..MaxCalls, outcome \in {"keypoints", "none", "throws"} :
        /\ calls[c].pc = "estimating"
        /\ calls' = [calls EXCEPT ![c] =
                        [@ EXCEPT !.pc = "returned",
                                  !.result = IF outcome = "keypoints" THEN "keypoints"
                                             ELSE "null"]]
        /\ UNCHANGED <<detector, isInitialized, initializationPromise, attempts,
                       detectors, disposeCalls>>
        /\ UNCHANGED <<ttsVars, fbVars, envVars, obsVars, appVars>>

\* disposePoseDetector(); detector.dispose() may throw, which is caught
disposePoseDetector ==
    \E ok \in BOOLEAN :
        /\ disposeCalls < MaxDisposes
        /\ disposeCalls' = disposeCalls + 1
        /\ IF detector # 0
           THEN /\ detectors' = [detectors EXCEPT ![detector].disposed = ok]
                /\ detector' = 0
                /\ isInitialized' = FALSE
                /\ initializationPromise' = 0
           ELSE /\ ok
                /\ UNCHANGED <<detector, isInitialized, initializationPromise, detectors>>
        /\ UNCHANGED <<attempts, calls>>
        /\ UNCHANGED <<ttsVars, fbVars, envVars, obsVars, appVars>>

PoseNext ==
    \/ initializePoseDetector
    \/ detectPose
    \/ AttemptSettles
    \/ EstimateSettles
    \/ disposePoseDetector

----------------------------------------------------------------------------
(* services/ttsService.ts (unnamed/part_004) *)

\* the <<action, message>> pairs speakActionFeedback is called with; "" stands
\* for an empty or absent message
SpeakInputs == {<<"High", "Well played">>, <<"High", "">>, <<"Not High", "">>}

\* mutant: the default text of the action is always used
getActionFeedbackDefaultOnly(action, message) ==
    [action |-> action,
     message |-> IF action = "High" THEN "Great shot!" ELSE "Keep practicing!"]

\* message || (action === 'High' ? 'Great shot!' : 'Keep practicing!')
getActionFeedback(action, message) ==
    [action |-> action,
     message |-> IF message # "" THEN message
                 ELSE IF action = "High" THEN "Great shot!" ELSE "Keep practicing!"]

\* stopsBefore: the number of stopAudio() calls made before this call
NoSpeak == [pc |-> "unused", action |-> "", message |-> "", remote |-> "pending",
            fallbacks |-> 0, text |-> "", local |-> "none", result |-> "pending",
            stopsBefore |-> 0]

\* ttsService.ts as loaded
TtsServiceInit ==
    /\ currentAudio = 0
    /\ isPlaying = FALSE
    /\ audios = <<>>
    /\ utterances = <<>>
    /\ speaks = [c \in 1..MaxSpeaks |-> NoSpeak]
    /\ stops = 0

\* the Audio elements that sound, and the utterances being spoken or waiting
\* in the queue of speechSynthesis
PlayingAudios == {a \in 1..Len(audios) : audios[a].state = "playing"}
Speaking == {u \in 1..Len(utterances) : utterances[u].state = "speaking"}
Queued == {u \in 1..Len(utterances) : utterances[u].state = "queued"}

\* speechSynthesis.speak(utterance) on the queue q: spoken at once when
\* nothing is being spoken or waiting, queued otherwise
SynthSpeak(q, c, text) ==
    Append(q, [by |-> c, text |-> text,
               state |-> IF \E u \in 1..Len(q) : q[u].state \in {"speaking", "queued"}
                         THEN "queued" ELSE "speaking"])

\* the queue q once the utterance being spoken is over: the oldest waiting
\* utterance is spoken
SynthAdvance(q) ==
    IF \E u \in 1..Len(q) : q[u].state = "queued"
    THEN LET n == CHOOSE u \in 1..Len(q) :
                      /\ q[u].state = "queued"
                      /\ \A v \in 1..(u - 1) : q[v].state # "queued"
         IN [q EXCEPT ![n].state = "speaking"]
    ELSE q

\* the catch block of speakActionFeedback for call c, the remote path having
\* failed for the given cause: fallbackTTS(getActionFeedback(...).message),
\* whose rejection is caught.  st is <<speaks, utterances>> before, the value
\* is <<speaks, utterances>> after.
fallbackTTS(st, c, cause) ==
    LET sp == st[1]
        text == getActionFeedback(sp[c].action, sp[c].message).message
    IN IF synthSupported
       THEN <<[sp EXCEPT ![c] = [@ EXCEPT !.pc = "fallback", !.remote = cause,
                                          !.fallbacks = @ + 1, !.text = text,
                                          !.local = "speaking"]],
              SynthSpeak(st[2], c, text)>>
       ELSE <<[sp EXCEPT ![c] = [@ EXCEPT !.pc = "done", !.remote = cause,
                                          !.fallbacks = @ + 1, !.text = text,
                                          !.local = "unsupported",
                                          !.result = "resolved"]],
              st[2]>>

\* currentAudio.pause(): a sounding element falls silent; an element whose
\* play() has not resolved yet has that promise rejected
Paused(as, a) ==
    IF as[a].state = "playing" THEN [as EXCEPT ![a].state = "paused"]
    ELSE IF as[a].state = "starting" THEN [as EXCEPT ![a].state = "aborted"]
    ELSE as

\* a caller calls speakActionFeedback(action, confidence, message): up to
\* await generateAudio(...)
speakActionFeedback ==
    \E c \in 1..MaxSpeaks, input \in SpeakInputs :
        /\ speaks[c].pc = "unused"
        /\ \A j \in 1..(c - 1) : speaks[j].pc # "unused"
        /\ speaks' = [speaks EXCEPT ![c] =
                         [NoSpeak EXCEPT !.pc = "generating", !.action = input[1],
                                         !.message = input[2],
                                         !.stopsBefore = stops]]
        /\ UNCHANGED <<currentAudio, isPlaying, audios, utterances, synthSupported, stops>>
        /\ UNCHANGED <<poseVars, fbVars, envVars, obsVars, appVars>>

\* generateAudio settles for call c: it rejects, or it resolves and
\* playAudioFromBase64 runs up to audio.play(), atob throwing or not
GenerateAudioSettles ==
    \E c \in 1..MaxSpeaks, outcome \in {"rejects", "undecodable", "audio"} :
        /\ speaks[c].pc = "generating"
        /\ IF outcome = "rejects"
           THEN /\ speaks' = fallbackTTS(<<speaks, utterances>>, c, "generateAudio")[1]
                /\ utterances' = fallbackTTS(<<speaks, utterances>>, c, "generateAudio")[2]
                /\ UNCHANGED <<currentAudio, isPlaying, audios>>
           ELSE LET stopping == currentAudio # 0 /\ isPlaying
                    silenced == IF stopping THEN Paused(audios, currentAudio) ELSE audios
                    \* the call whose play() was interrupted goes to its catch block
                    \* once this turn is over
                    aborted == stopping /\ audios[currentAudio].state = "starting"
                    owner == IF aborted THEN audios[currentAudio].by ELSE 0
                    st0 == <<speaks, utterances>>
                    st1 == IF outcome = "undecodable"
                           THEN fallbackTTS(st0, c, "decode")
                           ELSE <<[speaks EXCEPT ![c].pc = "playing"], utterances>>
                    st2 == IF aborted THEN fallbackTTS(st1, owner, "playback") ELSE st1
                IN /\ audios' = IF outcome = "audio"
                                THEN Append(silenced, [by |-> c, state |-> "starting"])
                                ELSE silenced
                   /\ currentAudio' = IF outcome = "audio" THEN Len(audios) + 1 ELSE 0
                   /\ isPlaying' = IF outcome = "audio" THEN TRUE ELSE isPlaying
                   /\ speaks' = st2[1]
                   /\ utterances' = st2[2]
        /\ UNCHANGED <<synthSupported, stops>>
        /\ UNCHANGED <<poseVars, fbVars, envVars, obsVars, appVars>>

\* an Audio element: play() resolves and it sounds; play() rejects; the error
\* event; the ended event
AudioEvent ==
    \E a \in 1..Len(audios), ev \in {"plays", "playRejected", "error", "ended"} :
        LET c == audios[a].by IN
        /\ ev \in {"plays", "playRejected"} => audios[a].state = "starting"
        /\ ev = "error" => audios[a].state \in {"starting", "playing"}
        /\ ev = "ended" => audios[a].state = "playing"
        /\ audios' = [audios EXCEPT ![a].state =
                         CASE ev = "plays" -> "playing"
                           [] ev = "ended" -> "ended"
                           [] OTHER -> "failed"]
        /\ IF ev \in {"error", "ended"}
           THEN isPlaying' = FALSE /\ currentAudio' = 0
           ELSE UNCHANGED <<isPlaying, currentAudio>>
        /\ IF ev = "plays" THEN UNCHANGED <<speaks, utterances>>
           ELSE IF ev = "ended"
           THEN /\ speaks' = [speaks EXCEPT ![c] = [@ EXCEPT !.pc = "done",
                                                            !.remote = "played",
                                                            !.result = "resolved"]]
                /\ UNCHANGED utterances
           ELSE /\ speaks' = fallbackTTS(<<speaks, utterances>>, c, "playback")[1]
                /\ utterances' = fallbackTTS(<<speaks, utterances>>, c, "playback")[2]
        /\ UNCHANGED <<synthSupported, stops>>
        /\ UNCHANGED <<poseVars, fbVars, envVars, obsVars, appVars>>

\* the utterance being spoken ends or fails; speakActionFeedback returns
UtteranceEvent ==
    \E u \in 1..Len(utterances), ok \in BOOLEAN :
        /\ utterances[u].state = "speaking"
        /\ utterances' = SynthAdvance([utterances EXCEPT ![u].state =
                                           IF ok THEN "ended" ELSE "failed"])
        /\ speaks' = [speaks EXCEPT ![utterances[u].by] =
                         [@ EXCEPT !.pc = "done", !.result = "resolved",
                                   !.local = IF ok THEN "spoken" ELSE "failed"]]
        /\ UNCHANGED <<currentAudio, isPlaying, audios, synthSupported, stops>>
        /\ UNCHANGED <<poseVars, fbVars, envVars, obsVars, appVars>>

\* stopAudio(): the current element is paused, speechSynthesis is cancelled
\* (its utterances get an error event)
stopAudio ==
    LET stopping == currentAudio # 0 /\ isPlaying
        aborted == stopping /\ audios[currentAudio].state = "starting"
        cancelled == [u \in 1..Len(utterances) |->
                         IF synthSupported /\ utterances[u].state \in {"speaking", "queued"}
                         THEN [utterances[u] EXCEPT !.state = "cancelled"]
                         ELSE utterances[u]]
        returned == [c \in 1..MaxSpeaks |->
                        IF synthSupported /\ speaks[c].pc = "fallback"
                        THEN [speaks[c] EXCEPT !.pc = "done", !.result = "resolved",
                                               !.local = "failed"]
                        ELSE speaks[c]]
        st == IF aborted
              THEN fallbackTTS(<<returned, cancelled>>, audios[currentAudio].by, "playback")
              ELSE <<returned, cancelled>>
    IN /\ stops < MaxStops
       /\ stops' = stops + 1
       /\ audios' = IF stopping THEN Paused(audios, currentAudio) ELSE audios
       /\ currentAudio' = IF stopping THEN 0 ELSE currentAudio
       /\ isPlaying' = IF stopping THEN FALSE ELSE isPlaying
       /\ speaks' = st[1]
       /\ utterances' = st[2]
       /\ UNCHANGED synthSupported
       /\ UNCHANGED <<poseVars, fbVars, envVars, obsVars, appVars>>

TtsNext ==
    \/ speakActionFeedback
    \/ GenerateAudioSettles
    \/ AudioEvent
    \/ UtteranceEvent
    \/ stopAudio

\* useState<PredictionResponse | null>(null): no prediction shown
NoPrediction == [prediction |-> "null", confidence |-> 0, message |-> ""]

\* ApplicationPage and CameraFeed as first rendered
AppInit ==
    /\ isCameraActive = FALSE
    /\ prediction = NoPrediction
    /\ isProcessing = FALSE
    /\ error = "null"
    /\ audioTranscript = ""
    /\ confidenceHistory = <<>>
    /\ videoDimensions = <<640, 480>>
    /\ keypoints = <<>>
    /\ processingRef = FALSE
    /\ lastProcessTimeRef = 0
    /\ lastActionRef = "null"
    /\ timeCounterRef = 0
    /\ prevLabel = "null"
    /\ inflight = <<>>
    /\ issued = 0
    /\ ttsCalls = <<>>
    /\ audioStops = 0
    /\ teardown = <<>>
    /\ ctxFailures = 0
    /\ ttsFailures = 0
    /\ loops = [l \in 1..MaxSessions |-> "unused"]
    /\ rafOwner = 0
    /\ streaming = FALSE
    /\ poseDetectionRef = FALSE
    /\ lastPoseDetectionTime = 0
    /\ PoseServiceInit
    /\ TtsServiceInit

FBInit ==
    /\ AppInit
    /\ synthSupported = TRUE
    /\ buffer = <<>>
    /\ maxFrames \in 1..MaxCap
    /\ frameInterval = DefaultFrameInterval
    /\ motionThreshold = DefaultMotionThresholdPct
    /\ lastCaptureTime = 0
    /\ hasSignificantMotion = FALSE
    /\ now = StartTime
    /\ video = Img(0, 0)
    /\ moves = 0
    /\ last = Obs("new", "none")
    /\ accepted = <<>>
    /\ acceptTime = 0
    /\ moved = FALSE
    /\ still = TRUE
    /\ padded = FALSE
    /\ resetSeen = FALSE

ClockAdvance ==
    \E d \in ClockSteps :
        /\ now + d <= MaxTime
        /\ now' = now + d
        /\ last' = Obs("clock", "none")
        /\ ObserveNothing
        /\ UNCHANGED <<fbVars, video, moves, appVars>>
        /\ UNCHANGED svcVars

FBAddFrame ==
    \E img \in FBImages, ctxOk \in BOOLEAN :
        /\ addFrame(img, ctxOk)
        /\ ObserveAdd(img, addFrameOutcome(img, ctxOk))
        /\ UNCHANGED padded
        /\ UNCHANGED <<maxFrames, frameInterval, motionThreshold, envVars, appVars>>
        /\ UNCHANGED svcVars

FBGetFrames ==
    /\ getFrames
    /\ last' = Obs("getFrames", Base64s(PadFrames(buffer, maxFrames)))
    /\ ObservePad(buffer)
    /\ UNCHANGED <<accepted, acceptTime, moved, still, resetSeen>>
    /\ UNCHANGED <<maxFrames, frameInterval, motionThreshold, envVars, appVars>>
    /\ UNCHANGED svcVars

FBResetMotionFlag ==
    /\ resetMotionFlag
    /\ last' = Obs("resetMotionFlag", "none")
    /\ ObserveReset
    /\ UNCHANGED <<maxFrames, frameInterval, motionThreshold, envVars, appVars>>
    /\ UNCHANGED svcVars

FBClear ==
    /\ clear
    /\ last' = Obs("clear", "none")
    /\ ObserveClear
    /\ UNCHANGED <<maxFrames, frameInterval, motionThreshold, envVars, appVars>>
    /\ UNCHANGED svcVars

\* a FrameBuffer of two frames whose threshold is the default, or the score
\* of one changed pixel (a quarter of the image)
MotionCap == 2
MotionThresholds == {DefaultMotionThresholdPct, 25}

MotionInit ==
    /\ AppInit
    /\ synthSupported = TRUE
    /\ buffer = <<>>
    /\ maxFrames = MotionCap
    /\ frameInterval = DefaultFrameInterval
    /\ motionThreshold \in MotionThresholds
    /\ lastCaptureTime = 0
    /\ hasSignificantMotion = FALSE
    /\ now = StartTime
    /\ video = Img(0, 0)
    /\ moves = 0
    /\ last = Obs("new", "none")
    /\ accepted = <<>>
    /\ acceptTime = 0
    /\ moved = FALSE
    /\ still = TRUE
    /\ padded = FALSE
    /\ resetSeen = FALSE

MotionAddFrame ==
    \E img \in MotionImages, ctxOk \in BOOLEAN :
        /\ addFrame(img, ctxOk)
        /\ ObserveAdd(img, addFrameOutcome(img, ctxOk))
        /\ UNCHANGED padded
        /\ UNCHANGED <<maxFrames, frameInterval, motionThreshold, envVars, appVars>>
        /\ UNCHANGED svcVars

MotionNext ==
    \/ ClockAdvance
    \/ MotionAddFrame
    \/ FBResetMotionFlag
    \/ FBClear

MotionSpec == MotionInit /\ [][MotionNext]_vars

FBNext ==
    \/ ClockAdvance
    \/ FBAddFrame
    \/ FBGetFrames
    \/ FBResetMotionFlag
    \/ FBClear

FBSpec == FBInit /\ [][FBNext]_vars

----------------------------------------------------------------------------
(* Claims about the FrameBuffer, checked under FBSpec *)

Full == Len(buffer) = maxFrames

AddReturned == last.op = "addFrame" /\ last.ret \in {"true", "false"}

\* C1: addFrame returns true exactly when the call was accepted (not
\* throttled) and, with the frame appended and the eviction done, the buffer
\* holds maxFrames frames and hasSignificantMotion is set; a throttled call,
\* a buffer below capacity and a full buffer without motion all return false.
C1_AddFrameReturnsReady ==
    AddReturned =>
        ((last.ret = "true") <=> (last.appended /\ Full /\ hasSignificantMotion))

C1_Witness ==
    /\ last.op = "addFrame"
    /\ last.ret = "true"
    /\ maxFrames = MaxCap

\* C2: on a cleared buffer, as long as every appended frame has motion score
\* 0 against its predecessor, addFrame never returns true and isReady() is
\* false, however many frames are pushed.
C2_StaticSceneNeverReady ==
    still =>
        /\ ~isReady
        /\ ~hasSignificantMotion
        /\ ~(last.op = "addFrame" /\ last.ret = "true")

\* a static scene that has filled the buffer and gone on past its capacity
C2_Witness ==
    /\ still
    /\ last.op = "addFrame"
    /\ last.appended
    /\ Full
    /\ maxFrames = MaxCap

C3_FlagStaysSet ==
    (hasSignificantMotion /\ last'.op \notin {"resetMotionFlag", "clear"})
        => hasSignificantMotion'

C3_TrueFromCapacityOn ==
    (AddReturned /\ last.appended /\ moved /\ ~padded)
        => ((last.ret = "true") <=> (Len(accepted) = maxFrames))

\* C3: once an appended frame has set hasSignificantMotion, every later step
\* other than resetMotionFlag() and clear() leaves it set, whatever the motion
\* of the later frames; and when frames are pushed into a cleared buffer and
\* one of them exceeds the threshold, addFrame returns false for the pushes
\* before the maxFrames-th and true for the maxFrames-th and every appended
\* push after it, until the flag is reset.
C3_MotionFlagMonotonic ==
    /\ [][C3_FlagStaysSet]_vars
    /\ []C3_TrueFromCapacityOn

\* ready although the frames that showed the motion have been evicted and
\* the last pushes were still
C3_Witness ==
    /\ last.op = "addFrame"
    /\ last.ret = "true"
    /\ ~padded
    /\ maxFrames = MaxCap
    /\ \A i \in 1..Len(buffer) : buffer[i].imageData = buffer[1].imageData

\* C4: the buffer never holds more than maxFrames frames and always holds
\* exactly the most recently appended frames (since the last clear()), in
\* capture order, oldest first.
C4_HoldsMostRecentFrames ==
    /\ Len(buffer) <= maxFrames
    /\ buffer = accepted

\* C5 as stated: an addFrame call less than frameInterval after the last
\* appended frame returns false and changes nothing.
C5_EarlyCallRejected ==
    [][(last'.op = "addFrame" /\ last'.early)
          => /\ last'.ret = "false"
             /\ ~last'.appended
             /\ UNCHANGED <<buffer, hasSignificantMotion, lastCaptureTime>>]_vars

\* C5, amended: an addFrame call less than frameInterval after the last frame
\* appended since the last clear() returns false and leaves the buffer,
\* hasSignificantMotion and lastCaptureTime unchanged.
C5_EarlyCallRejectedInCycle ==
    [][(last'.op = "addFrame" /\ last'.earlyInCycle)
          => /\ last'.ret = "false"
             /\ ~last'.appended
             /\ UNCHANGED <<buffer, hasSignificantMotion, lastCaptureTime>>]_vars

C5_Witness ==
    /\ last.op = "addFrame"
    /\ last.earlyInCycle
    /\ buffer # <<>>

C7_ResetKeepsFrames ==
    last'.op = "resetMotionFlag"
        => /\ ~hasSignificantMotion'
           /\ UNCHANGED <<buffer, lastCaptureTime>>

C7_TrueOnlyWithNewMotion ==
    (AddReturned /\ last.appended /\ Full) => ((last.ret = "true") <=> moved)

\* C7: resetMotionFlag() clears hasSignificantMotion and leaves the frames
\* and lastCaptureTime as they are; with the buffer full, an appended push
\* returns true exactly when a push since the last reset exceeded the motion
\* threshold, so after a reset addFrame returns false until new movement.
C7_ResetRequiresNewMotion ==
    /\ [][C7_ResetKeepsFrames]_vars
    /\ []C7_TrueOnlyWithNewMotion

\* the buffer was ready, was reset, stayed full, and became ready again
C7_Witness ==
    /\ resetSeen
    /\ last.op = "addFrame"
    /\ last.ret = "true"
    /\ ~padded
    /\ maxFrames >= 2

----------------------------------------------------------------------------
(* ApplicationPage and CameraFeed *)

\* what predictLive can resolve to; confidence is in hundredths
Results ==
    {[prediction |-> "High", confidence |-> 91, message |-> "Great shot!"],
     [prediction |-> "Not High", confidence |-> 62, message |-> "Keep practicing!"]}

\* the frame drawn on the canvas: the camera image, or the default canvas when
\* the video has no stream (videoWidth is 0)
Drawn == IF streaming THEN video ELSE SmallImg

\* isActive / isCameraActive as the closures of a running capture loop hold
\* them: the loop is started by the effect of the render in which isActive
\* turned true, and captureFrame and onFrameCapture are those of that render
LoopIsActive == TRUE

\* mutant: the in-flight guard is not consulted
BusyOrInactiveIgnoringGuard(closureActive) == ~closureActive

\* if (processingRef.current || !isCameraActive) return
BusyOrInactive(closureActive) == processingRef \/ ~closureActive

\* now - lastProcessTimeRef.current < FRAME_INTERVAL_MS
PredictionThrottled == now - lastProcessTimeRef < FRAME_INTERVAL_MS

\* the frames predictLive sends: padded to 8 with the last frame
PredictLiveFrames(frames) ==
    IF Len(frames) < DefaultMaxFrames /\ Len(frames) > 0
    THEN frames \o [i \in 1..(DefaultMaxFrames - Len(frames)) |-> frames[Len(frames)]]
    ELSE frames

\* the requests a call predictLive(frames) posts: none when there is no
\* frame (it throws), else one
RequestsOf(frames) ==
    IF Len(PredictLiveFrames(frames)) = 0
    THEN <<>>
    ELSE <<[frames |-> PredictLiveFrames(frames)]>>

\* what handleFrameCapture does with the frame: "dropped" (guard), "held"
\* (prediction throttle), or the outcome of addFrame
CaptureOutcome(closureActive, ctxOk) ==
    IF BusyOrInactive(closureActive) THEN "dropped"
    ELSE IF PredictionThrottled THEN "held"
    ELSE addFrameOutcome(Drawn, ctxOk)

\* handleFrameCapture up to its await
handleFrameCapture(closureActive, ctxOk) ==
    LET outcome == CaptureOutcome(closureActive, ctxOk)
        full == PushEvict(buffer, FrameData(Drawn), maxFrames)
    IN
    /\ videoDimensions' =
           IF ~BusyOrInactive(closureActive) /\ streaming
           THEN <<video.width, video.height>>
           ELSE videoDimensions
    /\ IF outcome \in {"dropped", "held"}
       THEN /\ UNCHANGED <<buffer, lastCaptureTime, hasSignificantMotion>>
            /\ UNCHANGED last
            /\ ObserveNothing
       ELSE IF outcome = "true"
       THEN /\ lastCaptureTime' = now
            /\ hasSignificantMotion' = MotionFlagAfter(Drawn)
            /\ buffer' = PadFrames(full, maxFrames)
            /\ ObserveAdd(Drawn, outcome)
            /\ ObservePad(full)
       ELSE /\ addFrame(Drawn, ctxOk)
            /\ ObserveAdd(Drawn, outcome)
            /\ UNCHANGED padded
    /\ IF outcome = "true"
       THEN /\ processingRef' = TRUE
            /\ isProcessing' = TRUE
            /\ lastProcessTimeRef' = now
            /\ inflight' = inflight \o RequestsOf(Base64s(PadFrames(full, maxFrames)))
            /\ issued' = issued + 1
       ELSE UNCHANGED <<processingRef, isProcessing, lastProcessTimeRef, inflight, issued>>

RemoveAt(q, i) == [j \in 1..(Len(q) - 1) |-> IF j < i THEN q[j] ELSE q[j + 1]]

\* mutant: every result is spoken
LabelChangedAlways(label) == TRUE

\* lastActionRef.current !== result.prediction
LabelChanged(label) == lastActionRef # label

\* mutant: the guard is released at the end of the try block only
ReleaseGuardOnSuccess(ok) ==
    IF ok
    THEN processingRef' = FALSE /\ isProcessing' = FALSE
    ELSE UNCHANGED <<processingRef, isProcessing>>

\* finally { processingRef.current = false; setIsProcessing(false) }
ReleaseGuard(ok) ==
    /\ processingRef' = FALSE
    /\ isProcessing' = FALSE

\* mutant: the history is never trimmed
HistoryAfterKeepingAll(result) ==
    Append(confidenceHistory,
           [time |-> timeCounterRef + 1,
            confidence |-> result.confidence * 100,
            timestamp |-> now])

\* the history after a result: one point appended, the last 50 kept
HistoryAfter(result) ==
    LastN(Append(confidenceHistory,
                 [time |-> timeCounterRef + 1,
                  confidence |-> result.confidence * 100,
                  timestamp |-> now]),
          MAX_HISTORY_POINTS)

\* handleFrameCapture after await predictLive(frames) resolved
RemoteResolve ==
    \E i \in 1..Len(inflight), result \in Results :
        /\ inflight[i].frames # <<>>
        /\ inflight' = RemoveAt(inflight, i)
        /\ prediction' = result
        /\ timeCounterRef' = timeCounterRef + 1
        /\ confidenceHistory' = HistoryAfter(result)
        /\ resetMotionFlag
        /\ IF LabelChanged(result.prediction)
           THEN /\ lastActionRef' = result.prediction
                /\ audioTranscript' = result.message
                /\ ttsCalls' = Append(ttsCalls, [action |-> result.prediction,
                                                 confidence |-> result.confidence,
                                                 message |-> result.message])
           ELSE UNCHANGED <<lastActionRef, audioTranscript, ttsCalls>>
        /\ ReleaseGuard(TRUE)
        /\ prevLabel' = result.prediction
        /\ last' = Obs("resolve", result.prediction)
        /\ ObserveReset
        /\ UNCHANGED <<maxFrames, frameInterval, motionThreshold, envVars, isCameraActive,
                       error, videoDimensions, keypoints, lastProcessTimeRef, issued,
                       audioStops, teardown, ctxFailures, ttsFailures,
                       feedVars>>
        /\ UNCHANGED svcVars

\* mutant: the catch block leaves the motion flag as it is
RemoteRejectWithoutReset ==
    \E i \in 1..Len(inflight) :
        /\ inflight' = RemoveAt(inflight, i)
        /\ error' = "Prediction failed"
        /\ ReleaseGuard(FALSE)
        /\ last' = Obs("reject", "none")
        /\ UNCHANGED <<fbVars, envVars, isCameraActive,
                       prediction, audioTranscript, confidenceHistory, videoDimensions,
                       keypoints, lastProcessTimeRef, lastActionRef, timeCounterRef,
                       prevLabel, issued, ttsCalls, audioStops, teardown, ctxFailures,
                       ttsFailures,
                       feedVars,
                       accepted, acceptTime, moved, still, padded, resetSeen>>
        /\ UNCHANGED svcVars

\* handleFrameCapture after await predictLive(frames) rejected
RemoteReject ==
    \E i \in 1..Len(inflight) :
        /\ inflight' = RemoveAt(inflight, i)
        /\ error' = "Prediction failed"
        /\ resetMotionFlag
        /\ ReleaseGuard(FALSE)
        /\ last' = Obs("reject", "none")
        /\ ObserveReset
        /\ UNCHANGED <<maxFrames, frameInterval, motionThreshold, envVars, isCameraActive,
                       prediction, audioTranscript, confidenceHistory, videoDimensions,
                       keypoints, lastProcessTimeRef, lastActionRef, timeCounterRef,
                       prevLabel, issued, ttsCalls, audioStops, teardown, ctxFailures,
                       ttsFailures,
                       feedVars>>
        /\ UNCHANGED svcVars

\* stopCamera: the pending animation frame is cancelled, the stream stopped
\* and detached, the pose detector disposed
LoopsAfterStop ==
    IF rafOwner # 0 /\ loops[rafOwner] = "scheduled"
    THEN [loops EXCEPT ![rafOwner] = "ended"]
    ELSE loops

\* stopCamera as the steps it comes to, in order; each is skipped when its
\* ref holds nothing (no request id, no stream, pose detection not set up)
stopCameraSteps == <<"cancel", "tracks", "dispose">>

\* handleStop calls stopAudio() itself; stopCamera runs in the effect of the
\* render that follows
TeardownOnStop == <<"audio">> \o stopCameraSteps

\* the resets handleStart and handleStop share
ResetSession ==
    /\ prediction' = NoPrediction
    /\ audioTranscript' = ""
    /\ confidenceHistory' = <<>>
    /\ keypoints' = <<>>
    /\ lastActionRef' = "null"
    /\ timeCounterRef' = 0
    /\ clear
    /\ prevLabel' = "null"
    /\ ObserveClear

\* the Start Camera button, and the effect of isActive turning true: the
\* cleanup of the previous effect (stopCamera), then startCamera
handleStart ==
    \E l \in 1..MaxSessions :
        /\ ~isCameraActive
        /\ loops[l] = "unused"
        /\ \A k \in 1..(l - 1) : loops[k] # "unused"
        /\ error' = "null"
        /\ ResetSession
        /\ isCameraActive' = TRUE
        /\ loops' = [LoopsAfterStop EXCEPT ![l] = "starting"]
        /\ rafOwner' = 0
        /\ streaming' = FALSE
        /\ poseDetectionRef' = FALSE
        /\ last' = Obs("handleStart", "none")
        /\ UNCHANGED <<maxFrames, frameInterval, motionThreshold, envVars, isProcessing,
                       videoDimensions, processingRef, lastProcessTimeRef, inflight,
                       issued, ttsCalls, audioStops, ctxFailures, ttsFailures,
                       lastPoseDetectionTime>>
        /\ teardown' = <<>>
        /\ UNCHANGED svcVars

\* the Stop Camera button, and the effect of isActive turning false
handleStop ==
    /\ isCameraActive
    /\ isCameraActive' = FALSE
    /\ audioStops' = audioStops + 1
    /\ teardown' = TeardownOnStop
    /\ ResetSession
    /\ loops' = LoopsAfterStop
    /\ rafOwner' = 0
    /\ streaming' = FALSE
    /\ poseDetectionRef' = FALSE
    /\ last' = Obs("handleStop", "none")
    /\ UNCHANGED <<maxFrames, frameInterval, motionThreshold, envVars, isProcessing, error,
                   videoDimensions, processingRef, lastProcessTimeRef, inflight, issued,
                   ttsCalls, ctxFailures, ttsFailures, lastPoseDetectionTime>>
    /\ UNCHANGED svcVars

\* getUserMedia rejects: handleCameraError, and the effect of isActive
\* turning false if it was true
CameraDenied ==
    \E l \in 1..MaxSessions :
        /\ loops[l] = "starting"
        /\ error' = "Failed to access camera"
        /\ isCameraActive' = FALSE
        /\ IF isCameraActive
           THEN /\ loops' = [LoopsAfterStop EXCEPT ![l] = "ended"]
                /\ rafOwner' = 0
                /\ streaming' = FALSE
                /\ poseDetectionRef' = FALSE
                /\ teardown' = stopCameraSteps
           ELSE /\ loops' = [loops EXCEPT ![l] = "ended"]
                /\ UNCHANGED <<rafOwner, streaming, poseDetectionRef, teardown>>
        /\ UNCHANGED last
        /\ ObserveNothing
        /\ UNCHANGED <<fbVars, envVars, prediction, isProcessing, audioTranscript,
                       confidenceHistory, videoDimensions, keypoints, processingRef,
                       lastProcessTimeRef, lastActionRef, timeCounterRef, prevLabel,
                       inflight, issued, ttsCalls, audioStops, ctxFailures, ttsFailures,
                       lastPoseDetectionTime>>
        /\ UNCHANGED svcVars

\* getUserMedia resolves, the stream is attached, the metadata loads and
\* startFrameCapture has initialised pose detection (or failed to): the
\* first captureFrame is due
startFrameCapture ==
    \E l \in 1..MaxSessions, poseOk \in BOOLEAN :
        /\ loops[l] = "starting"
        /\ loops' = [loops EXCEPT ![l] = "scheduled"]
        /\ streaming' = TRUE
        /\ poseDetectionRef' = poseOk
        /\ UNCHANGED last
        /\ ObserveNothing
        /\ UNCHANGED <<fbVars, envVars, pageVars, collabVars, rafOwner,
                       lastPoseDetectionTime>>
        /\ UNCHANGED svcVars

\* now - lastPoseDetectionTime.current >= POSE_DETECTION_INTERVAL, with pose
\* detection set up
PoseDue == poseDetectionRef /\ now - lastPoseDetectionTime >= POSE_DETECTION_INTERVAL

\* mutant: an exception of onFrameCapture ends captureFrame before it gets
\* to requestAnimationFrame
LoopAfterTickEndingOnThrow(outcome) ==
    IF outcome = "threw" THEN "ended"
    ELSE IF PoseDue THEN "suspended" ELSE "scheduled"

\* where captureFrame stands after its synchronous part: awaiting detectPose,
\* or done with the next animation frame requested. onFrameCapture is an
\* async function that is not awaited: what it throws rejects its promise
LoopAfterTick(outcome) == IF PoseDue THEN "suspended" ELSE "scheduled"

\* one run of captureFrame by loop l, up to its await or to its end; the
\* clock then runs on to the next animation frame
Tick(l, ctxOk) ==
    LET after == LoopAfterTick(CaptureOutcome(LoopIsActive, ctxOk)) IN
    /\ loops[l] = "scheduled"
    /\ now <= MaxPageTime
    /\ handleFrameCapture(LoopIsActive, ctxOk)
    /\ ctxFailures' = IF CaptureOutcome(LoopIsActive, ctxOk) = "threw"
                      THEN ctxFailures + 1 ELSE ctxFailures
    /\ loops' = [loops EXCEPT ![l] = after]
    /\ lastPoseDetectionTime' = IF PoseDue THEN now ELSE lastPoseDetectionTime
    /\ rafOwner' = IF after = "scheduled" THEN l ELSE rafOwner
    /\ now' = now + TickMs
    /\ UNCHANGED <<maxFrames, frameInterval, motionThreshold, video, moves,
                   isCameraActive, prediction, error, audioTranscript,
                   confidenceHistory, keypoints, lastActionRef, timeCounterRef,
                   prevLabel, ttsCalls, audioStops, teardown, ttsFailures, streaming,
                   poseDetectionRef>>
    /\ UNCHANGED svcVars

\* captureFrame as requestAnimationFrame (or startFrameCapture) calls it
captureFrame ==
    \E l \in 1..MaxSessions, ctxOk \in BOOLEAN :
        /\ ctxOk \/ ctxFailures < MaxCtxFailures
        /\ Tick(l, ctxOk)

\* captureFrame on a page where canvas.getContext('2d') gives null
captureFrameWithoutContext ==
    \E l \in 1..MaxSessions :
        /\ ctxFailures < MaxLostContexts
        /\ Tick(l, FALSE)

\* a speakActionFeedback call of the page ends with the remote audio and the
\* local speech both failed; the page only logs what the call rejects with
SpeakFails ==
    /\ ttsFailures < Len(ttsCalls)
    /\ ttsFailures < MaxTtsFailures
    /\ ttsFailures' = ttsFailures + 1
    /\ UNCHANGED last
    /\ ObserveNothing
    /\ UNCHANGED <<fbVars, envVars, pageVars, prevLabel, inflight, issued, ttsCalls,
                   audioStops, teardown, ctxFailures, feedVars>>
    /\ UNCHANGED svcVars

\* captureFrame after await detectPose(...): the keypoints, if any, go to the
\* page, and the next animation frame is requested
PoseSettles ==
    \E l \in 1..MaxSessions, found \in {<<>>, <<"nose">>} :
        /\ loops[l] = "suspended"
        /\ keypoints' = IF Len(found) > 0 THEN found ELSE keypoints
        /\ loops' = [loops EXCEPT ![l] = "scheduled"]
        /\ rafOwner' = l
        /\ UNCHANGED last
        /\ ObserveNothing
        /\ UNCHANGED <<fbVars, envVars, isCameraActive, prediction, isProcessing, error,
                       audioTranscript, confidenceHistory, videoDimensions, processingRef,
                       lastProcessTimeRef, lastActionRef, timeCounterRef, collabVars,
                       streaming, poseDetectionRef, lastPoseDetectionTime>>
        /\ UNCHANGED svcVars

\* the scene in front of the running camera changes
SceneChange ==
    \E img \in Images \ {video} :
        /\ streaming
        /\ moves < MaxMoves
        /\ moves' = moves + 1
        /\ video' = img
        /\ UNCHANGED last
        /\ ObserveNothing
        /\ UNCHANGED <<fbVars, now, appVars>>
        /\ UNCHANGED svcVars

\* the page as mounted: frameBufferRef = new FrameBuffer(8, 200)
PageInit ==
    /\ AppInit
    /\ buffer = <<>>
    /\ maxFrames = DefaultMaxFrames
    /\ frameInterval = FRAME_INTERVAL_MS
    /\ motionThreshold = DefaultMotionThresholdPct
    /\ lastCaptureTime = 0
    /\ hasSignificantMotion = FALSE
    /\ now = StartTime
    /\ video = Img(0, 0)
    /\ moves = 0
    /\ last = Obs("new", "none")
    /\ accepted = <<>>
    /\ acceptTime = 0
    /\ moved = FALSE
    /\ still = TRUE
    /\ padded = FALSE
    /\ resetSeen = FALSE

\* ... in a browser that has speechSynthesis
Init == PageInit /\ synthSupported = TRUE

\* ... in a browser with or without speechSynthesis
TtsInit == PageInit /\ synthSupported \in BOOLEAN

Next ==
    \/ handleStart
    \/ handleStop
    \/ CameraDenied
    \/ startFrameCapture
    \/ captureFrame
    \/ PoseSettles
    \/ SceneChange
    \/ RemoteResolve
    \/ RemoteReject

Spec == Init /\ [][Next]_vars

\* the page with its failures: a lost canvas context, a failed playback
LoopNext ==
    \/ handleStart
    \/ handleStop
    \/ CameraDenied
    \/ startFrameCapture
    \/ captureFrame
    \/ captureFrameWithoutContext
    \/ PoseSettles
    \/ SceneChange
    \/ RemoteResolve
    \/ RemoteReject
    \/ SpeakFails

\* the window after seven frames of the still scene, TickMs apart, the last
\* one taken at time t
StillWindowAt(t) ==
    [i \in 1..(DefaultMaxFrames - 1) |->
        [base64 |-> toDataURL(Img(0, 0)),
         imageData |-> Img(0, 0),
         timestamp |-> t - (DefaultMaxFrames - 1 - i) * TickMs]]

\* a first session under way in front of a still scene: seven ticks have
\* run, nothing was sent and no pose was found yet
LoopInit ==
    /\ buffer = StillWindowAt(LoopStart - TickMs)
    /\ maxFrames = DefaultMaxFrames
    /\ frameInterval = FRAME_INTERVAL_MS
    /\ motionThreshold = DefaultMotionThresholdPct
    /\ lastCaptureTime = LoopStart - TickMs
    /\ hasSignificantMotion = FALSE
    /\ now = LoopStart
    /\ video = Img(0, 0)
    /\ moves = 0
    /\ last = [op |-> "addFrame", ret |-> "false", appended |-> TRUE,
               early |-> FALSE, earlyInCycle |-> FALSE]
    /\ accepted = StillWindowAt(LoopStart - TickMs)
    /\ acceptTime = LoopStart - TickMs
    /\ moved = FALSE
    /\ still = TRUE
    /\ padded = FALSE
    /\ resetSeen = FALSE
    /\ isCameraActive = TRUE
    /\ prediction = NoPrediction
    /\ isProcessing = FALSE
    /\ error = "null"
    /\ audioTranscript = ""
    /\ confidenceHistory = <<>>
    /\ videoDimensions = <<ImgW, ImgH>>
    /\ keypoints = <<>>
    /\ processingRef = FALSE
    /\ lastProcessTimeRef = 0
    /\ lastActionRef = "null"
    /\ timeCounterRef = 0
    /\ prevLabel = "null"
    /\ inflight = <<>>
    /\ issued = 0
    /\ ttsCalls = <<>>
    /\ audioStops = 0
    /\ teardown = <<>>
    /\ ctxFailures = 0
    /\ ttsFailures = 0
    /\ loops = [l \in 1..MaxSessions |-> IF l = 1 THEN "scheduled" ELSE "unused"]
    /\ rafOwner = 1
    /\ streaming = TRUE
    /\ poseDetectionRef = TRUE
    /\ lastPoseDetectionTime = 0
    /\ PoseServiceInit
    /\ TtsServiceInit
    /\ synthSupported = TRUE

LoopSpec == LoopInit /\ [][LoopNext]_vars

\* the pose detection service driven by its callers
PoseSpec == Init /\ [][PoseNext]_vars

\* the audio feedback service driven by its callers
TtsSpec == TtsInit /\ [][TtsNext]_vars

\* every remote call is eventually answered or fails
LiveSpec == Init /\ [][Next]_vars /\ WF_vars(RemoteResolve \/ RemoteReject)

----------------------------------------------------------------------------
(* The page: claims *)

\* a capture tick: captureFrame ran (the clock runs on after it)
IsTick == now' # now
\* handleFrameCapture resumed after await predictLive: the call is answered
IsSettle == Len(inflight') < Len(inflight)
\* ... with a result
IsResolve == timeCounterRef' = timeCounterRef + 1

\* C8: at most one predictLive call is outstanding at any time; a tick that
\* arrives while processingRef is set issues no call and leaves nothing
\* behind (the buffer is not even offered the frame), and the completion of
\* the call in flight issues no call on behalf of a dropped tick.
C8_SingleFlight ==
    [][/\ Len(inflight') <= 1
       /\ (IsTick /\ processingRef) =>
              /\ issued' = issued
              /\ inflight' = inflight
              /\ buffer' = buffer
              /\ processingRef'
       /\ IsSettle => (issued' = issued /\ inflight' = <<>>)
       /\ issued' \in {issued, issued + 1}
       /\ issued' = issued + 1 => (IsTick /\ ~processingRef /\ Len(inflight') = 1)]_vars

\* a tick arrived while the call issued at lastProcessTimeRef was in flight
C8_Witness ==
    /\ processingRef
    /\ Len(inflight) = 1
    /\ issued = 1
    /\ now >= lastProcessTimeRef + 2 * TickMs

\* C9: the guard is set exactly while a call is outstanding: the step that
\* settles the call, resolved or rejected, clears it, and nothing else does;
\* the next tick on which addFrame returns true issues a new call; if every
\* call settles, a set guard is always cleared again.
C9_GuardReleasedOnce ==
    /\ [](processingRef <=> Len(inflight) = 1)
    /\ [][/\ IsSettle => (processingRef /\ ~processingRef' /\ ~isProcessing')
          /\ (processingRef /\ ~processingRef') => IsSettle
          /\ (IsTick /\ ~processingRef /\ last'.op = "addFrame" /\ last'.ret = "true")
                 => (issued' = issued + 1 /\ processingRef')]_vars
    /\ (processingRef ~> ~processingRef)

\* a call failed, and a later ready tick issued the next one
C9_Witness ==
    /\ error = "Prediction failed"
    /\ issued = 2
    /\ processingRef
    /\ Len(inflight) = 1

\* C10: speakActionFeedback is called for a result iff its label differs from
\* the label of the previous result of the session (none at session start);
\* the remembered label is then the result's; nothing else calls it.
C10_VoiceOnLabelChange ==
    [][IF IsResolve
       THEN /\ (ttsCalls' # ttsCalls) <=> (prediction'.prediction # prevLabel)
            /\ ttsCalls' # ttsCalls =>
                   /\ Len(ttsCalls') = Len(ttsCalls) + 1
                   /\ SubSeq(ttsCalls', 1, Len(ttsCalls)) = ttsCalls
                   /\ ttsCalls'[Len(ttsCalls')].action = prediction'.prediction
            /\ lastActionRef' = prediction'.prediction
       ELSE ttsCalls' = ttsCalls]_vars

\* two results with the same label in one session, spoken once
C10_Witness ==
    /\ timeCounterRef = 2
    /\ Len(ttsCalls) = 1
    /\ Len(confidenceHistory) = 2
    /\ lastActionRef = ttsCalls[1].action

----------------------------------------------------------------------------
(* A long session: the confidence history near its capacity *)

\* the result the earlier inferences of the session gave
EarlierResult == CHOOSE r \in Results : r.prediction = "High"

\* the history after n results, all EarlierResult
HistoryOf(n) ==
    LastN([i \in 1..n |-> [time |-> i,
                           confidence |-> EarlierResult.confidence * 100,
                           timestamp |-> StartTime]],
          MAX_HISTORY_POINTS)

\* the window of the request in flight: seven frames of the still scene, then
\* the frame that moved, TickMs apart, the last one taken at time t
WindowAt(t) ==
    [i \in 1..DefaultMaxFrames |->
        [base64 |-> toDataURL(IF i < DefaultMaxFrames THEN Img(0, 0) ELSE Img(MovedPixels, 0)),
         imageData |-> IF i < DefaultMaxFrames THEN Img(0, 0) ELSE Img(MovedPixels, 0),
         timestamp |-> t - (DefaultMaxFrames - i) * TickMs]]

\* a running session that has shown n results (HistStart - 2 <= n <= HistStart)
\* and whose next request was issued by the tick before now
HistInit ==
    \E n \in (HistStart - 2)..HistStart :
        /\ buffer = WindowAt(MaxPageTime - TickMs)
        /\ maxFrames = DefaultMaxFrames
        /\ frameInterval = FRAME_INTERVAL_MS
        /\ motionThreshold = DefaultMotionThresholdPct
        /\ lastCaptureTime = MaxPageTime - TickMs
        /\ hasSignificantMotion = TRUE
        /\ now = MaxPageTime
        /\ video = Img(MovedPixels, 0)
        /\ moves = 1
        /\ last = [op |-> "addFrame", ret |-> "true", appended |-> TRUE,
                   early |-> FALSE, earlyInCycle |-> FALSE]
        /\ accepted = WindowAt(MaxPageTime - TickMs)
        /\ acceptTime = MaxPageTime - TickMs
        /\ moved = TRUE
        /\ still = FALSE
        /\ padded = FALSE
        /\ resetSeen = TRUE
        /\ isCameraActive = TRUE
        /\ prediction = EarlierResult
        /\ isProcessing = TRUE
        /\ error = "null"
        /\ audioTranscript = EarlierResult.message
        /\ confidenceHistory = HistoryOf(n)
        /\ videoDimensions = <<ImgW, ImgH>>
        /\ keypoints = <<"nose">>
        /\ processingRef = TRUE
        /\ lastProcessTimeRef = MaxPageTime - TickMs
        /\ lastActionRef = EarlierResult.prediction
        /\ timeCounterRef = n
        /\ prevLabel = EarlierResult.prediction
        /\ inflight = <<[frames |-> PredictLiveFrames(Base64s(WindowAt(MaxPageTime - TickMs)))]>>
        /\ issued = n + 1
        /\ ttsCalls = <<[action |-> EarlierResult.prediction,
                         confidence |-> EarlierResult.confidence,
                         message |-> EarlierResult.message]>>
        /\ audioStops = 0
        /\ teardown = <<>>
        /\ ctxFailures = 0
        /\ ttsFailures = 0
        /\ loops = [l \in 1..MaxSessions |-> IF l = 1 THEN "scheduled" ELSE "unused"]
        /\ rafOwner = 1
        /\ streaming = TRUE
        /\ poseDetectionRef = TRUE
        /\ lastPoseDetectionTime = MaxPageTime - TickMs
        /\ PoseServiceInit
        /\ TtsServiceInit
        /\ synthSupported = TRUE

HistSpec == HistInit /\ [][Next]_vars

\* C11: a result appends exactly one history entry, numbered one more than
\* the entry before it (1 for the first of a session) and carrying
\* confidence * 100; the history never holds more than 50 entries, its
\* numbers increase strictly, and an append to a full history drops the
\* oldest entry only; nothing but a result or a session reset changes it.
C11_HistoryBoundedAndNumbered ==
    /\ [](/\ Len(confidenceHistory) <= MAX_HISTORY_POINTS
          /\ \A i \in 1..(Len(confidenceHistory) - 1) :
                 confidenceHistory[i].time < confidenceHistory[i + 1].time
          /\ confidenceHistory # <<>> =>
                 confidenceHistory[Len(confidenceHistory)].time = timeCounterRef)
    /\ [][IF IsResolve
          THEN LET old == confidenceHistory
                   new == confidenceHistory'
                   kept == IF Len(old) < MAX_HISTORY_POINTS THEN old ELSE Tail(old)
               IN /\ Len(new) = Len(kept) + 1
                  /\ SubSeq(new, 1, Len(kept)) = kept
                  /\ new[Len(new)].confidence = prediction'.confidence * 100
                  /\ new[Len(new)].time =
                         IF old = <<>> THEN 1 ELSE old[Len(old)].time + 1
          ELSE confidenceHistory' \in {confidenceHistory, <<>>}]_vars

\* the 51st and the 52nd result of a session: the two oldest entries are gone
C11_Witness ==
    /\ Len(confidenceHistory) = MAX_HISTORY_POINTS
    /\ confidenceHistory[1].time = 3
    /\ timeCounterRef = MAX_HISTORY_POINTS + 2

\* handleFrameCapture resumed in its catch block: the call failed
IsReject == IsSettle /\ ~IsResolve

\* C12: when predictLive rejects, the error is recorded, resetMotionFlag()
\* is called (the frames stay), the guard is cleared, and the prediction, the
\* history, the sequence counter, the remembered label, the transcript and
\* the audio calls are left alone; the session stays as active as it was.
C12_RejectIsNonFatal ==
    [][IsReject =>
          /\ error' = "Prediction failed"
          /\ ~hasSignificantMotion'
          /\ buffer' = buffer
          /\ ~processingRef'
          /\ ~isProcessing'
          /\ UNCHANGED <<prediction, confidenceHistory, timeCounterRef, lastActionRef,
                         prevLabel, audioTranscript, ttsCalls, audioStops,
                         isCameraActive, loops>>]_vars

\* a call was rejected and, with no result yet, new motion issued the next one
C12_Witness ==
    /\ error = "Prediction failed"
    /\ isCameraActive
    /\ prediction = NoPrediction
    /\ timeCounterRef = 0
    /\ ttsCalls = <<>>
    /\ issued = 2
    /\ Len(inflight) = 1

----------------------------------------------------------------------------
(* The pose detection service: claims *)

\* the constructions initialisation body a has finished, all of them failed
AllFailed(t) == \A i \in 1..Len(t) : ~t[i].ok

\* C13: an initialisation constructs the variants in the order MoveNet
\* Lightning, MoveNet Thunder, BlazePose Lite, each only after the
\* construction of every earlier one has failed; it ends Ready at the first
\* construction that succeeds; it rejects iff all three constructions failed,
\* and then with an error that holds the three failures.
C13_VariantsInOrder ==
    \A k \in 1..MaxAttempts :
        LET a == attempts[k]
            t == a.tried
        IN /\ \A i \in 1..Len(t) : t[i].variant = Variants[i]
           /\ \A i \in 1..(Len(t) - 1) : ~t[i].ok
           /\ \A j \in 1..3 : a.pc = Variants[j] => (Len(t) = j - 1 /\ AllFailed(t))
           /\ a.pc = "resolved" => (Len(t) >= 1 /\ t[Len(t)].ok)
           /\ a.pc = "rejected" <=> (Len(t) = 3 /\ AllFailed(t))
           /\ a.pc = "rejected" => Len(a.reason.errors) = 3

\* C14: at most one initialisation body runs at any time, and a call made
\* while one runs starts no other.
C14_SingleInitialization ==
    /\ Cardinality(RunningAttempts) <= 1
    /\ \A c \in 1..MaxCalls : calls[c].busy => ~calls[c].started

\* a detectPose call returns
DetectReturns(c) == calls[c].kind = "detect" /\ calls[c].pc # "returned" /\ calls'[c].pc = "returned"

\* C15: detectPose never rejects: every call of it returns null or
\* keypoints; called when the detector is not Ready it first awaits an
\* initialisation; the step in which estimatePoses settles leaves the
\* detector, isInitialized, the promise and the initialisations alone.
C15_DetectNeverRaises ==
    /\ [](\A c \in 1..MaxCalls :
              calls[c].kind = "detect" =>
                  /\ calls[c].result \in {"pending", "null", "keypoints"}
                  /\ calls[c].pc = "returned" => calls[c].result \in {"null", "keypoints"})
    /\ [][\A c \in 1..MaxCalls :
              /\ (calls[c].pc = "unused" /\ calls'[c].kind = "detect" /\ ~Ready) =>
                     /\ calls'[c].pc = "awaitInit"
                     /\ Running(attempts'[calls'[c].awaits])
              /\ (calls[c].pc = "estimating" /\ DetectReturns(c)) =>
                     UNCHANGED <<detector, isInitialized, initializationPromise,
                                 attempts, detectors>>]_vars

\* a detectPose call returned null because the initialisation it awaited
\* was rejected, and another one ran estimatePoses
C15_Witness ==
    \E c, e \in 1..MaxCalls :
        /\ calls[c].kind = "detect"
        /\ calls[c].pc = "returned"
        /\ calls[c].result = "null"
        /\ calls[c].awaits # 0
        /\ attempts[calls[c].awaits].pc = "rejected"
        /\ calls[e].kind = "detect"
        /\ calls[e].pc = "returned"
        /\ calls[e].on # 0

\* C16: after disposePoseDetector() there is no detector, isInitialized is
\* false, no promise is held and no initialisation is running, whatever the
\* state it was called in.
C16_DisposeResets ==
    [][disposeCalls' = disposeCalls + 1 =>
          /\ detector' = 0
          /\ ~isInitialized'
          /\ initializationPromise' = 0
          /\ RunningAttempts' = {}]_vars

----------------------------------------------------------------------------
(* The audio feedback service: claims *)

\* C17: at most one playback is active at any time, Audio elements that
\* sound and utterances being spoken counted together, and no utterance
\* waits in a queue.
C17_OneUtteranceAudible ==
    /\ Cardinality(PlayingAudios) + Cardinality(Speaking) <= 1
    /\ Queued = {}

\* what every call of speakActionFeedback satisfies, whatever text the
\* fallback is to speak: the fallback runs at most once, runs iff the remote
\* path failed (generateAudio rejected, the decoding threw, the playback
\* failed), and the call never rejects
FallbackOnRemoteFailure(c) ==
    LET sp == speaks[c] IN
    /\ sp.fallbacks <= 1
    /\ sp.fallbacks = 1 <=> sp.remote \in {"generateAudio", "decode", "playback"}
    /\ sp.remote = "played" => (sp.fallbacks = 0 /\ sp.local = "none")
    /\ sp.pc \in {"generating", "playing"} => sp.fallbacks = 0
    /\ sp.result # "rejected"
    /\ sp.pc = "done" <=> sp.result = "resolved"

\* C18 as stated: ... and the fallback speaks the message of the prediction.
C18_FallbackSpeaksMessage ==
    \A c \in 1..MaxSpeaks :
        /\ FallbackOnRemoteFailure(c)
        /\ speaks[c].fallbacks = 1 => speaks[c].text = speaks[c].message

\* C18: speakActionFeedback tries the remote path first; on any failure of
\* it the local fallback is invoked exactly once, with the message of the
\* prediction, or with the default text of the action when the message is
\* empty; the fallback is not used when the remote audio played to its end;
\* the call never rejects, even when both paths fail.
C18_FallbackSpeaksMessageOrDefault ==
    \A c \in 1..MaxSpeaks :
        /\ FallbackOnRemoteFailure(c)
        /\ speaks[c].fallbacks = 1 =>
               speaks[c].text = IF speaks[c].message # "" THEN speaks[c].message
                                ELSE IF speaks[c].action = "High" THEN "Great shot!"
                                ELSE "Keep practicing!"

\* both paths failed for one call, which returned; another call spoke its
\* own message through the fallback
C18_Witness ==
    \E c, d \in 1..MaxSpeaks :
        /\ speaks[c].pc = "done"
        /\ speaks[c].remote = "playback"
        /\ speaks[c].local = "failed"
        /\ speaks[c].result = "resolved"
        /\ speaks[d].message # ""
        /\ speaks[d].local = "spoken"
        /\ speaks[d].text = speaks[d].message

----------------------------------------------------------------------------
(* CameraFeed: claims on deactivation *)

\* the capture loops that have started ticking and have not ended
RunningLoops == {l \in 1..MaxSessions : loops[l] \in {"scheduled", "suspended"}}

\* a loop gets its next tick registered, or its first tick called
IsRegistration ==
    \E l \in 1..MaxSessions : loops'[l] = "scheduled" /\ loops[l] # "scheduled"

\* C19: once the session is deactivated no captureFrame tick runs (so neither
\* onFrameCapture nor detectPose is called) and no tick is registered until
\* the next activation, wherever in the loop the deactivation falls, and at
\* most one capture loop is ever running
C19_LoopStopsOnDeactivation ==
    /\ [](Cardinality(RunningLoops) <= 1)
    /\ [][~isCameraActive => ~IsTick /\ ~IsRegistration]_vars

\* C20: deactivating a session cancels the tick registration, stops the
\* stream tracks, disposes the pose detector and stops the audio, in that
\* order, each step tolerating a resource that was never acquired
C20_TeardownInOrder ==
    teardown # <<>> => teardown = <<"cancel", "tracks", "dispose", "audio">>

----------------------------------------------------------------------------
(* The capture loop and its errors *)

\* a deactivation, or the activation that follows one: stopCamera runs
IsStopCamera == isCameraActive' # isCameraActive

\* C21: while the session stays active no error ends the capture loop: a
\* running loop leaves the running state by no step other than a stop or a
\* camera error, and every tick, whatever addFrame, predictLive, the pose
\* detection and the audio playback did before it or in it, leaves its loop
\* with the next tick registered or awaiting detectPose, from where the
\* registration follows
C21_ErrorsKeepLoopRunning ==
    [][~IsStopCamera =>
          /\ \A l \in RunningLoops : loops'[l] \in {"scheduled", "suspended"}
          /\ IsTick => \E l \in 1..MaxSessions :
                           /\ loops[l] = "scheduled"
                           /\ \/ loops'[l] = "scheduled" /\ rafOwner' = l
                              \/ loops'[l] = "suspended"
          /\ \A l \in 1..MaxSessions :
                 loops[l] = "suspended" /\ loops'[l] # "suspended" =>
                     loops'[l] = "scheduled" /\ rafOwner' = l]_vars

\* the first session is still active after addFrame threw, predictLive was
\* rejected, a pose detection gave nothing and a playback failed, and its
\* loop has its next tick registered
C21_Witness ==
    /\ isCameraActive
    /\ loops[1] = "scheduled"
    /\ rafOwner = 1
    /\ \A l \in 2..MaxSessions : loops[l] = "unused"
    /\ ctxFailures > 0
    /\ error = "Prediction failed"
    /\ lastPoseDetectionTime >= LoopStart
    /\ keypoints = <<>>
    /\ ttsFailures > 0

----------------------------------------------------------------------------
(* The requests to the classifier *)

\* handleFrameCapture called predictLive
IsRequest == issued' = issued + 1

\* C22: every request sent to the classifier carries exactly 8 frames: each
\* call of predictLive by handleFrameCapture posts one request, of 8 frames,
\* and a call of predictLive without frames posts none
C22_EightFramesPerRequest ==
    /\ [](\A i \in 1..Len(inflight) : Len(inflight[i].frames) = DefaultMaxFrames)
    /\ [][IsRequest =>
            /\ Len(inflight') = Len(inflight) + 1
            /\ Len(inflight'[Len(inflight')].frames) = DefaultMaxFrames
            /\ Len(buffer') = DefaultMaxFrames]_vars
    /\ [](RequestsOf(<<>>) = <<>>)

\* the second request of a session is out: the window it was taken from had
\* dropped its oldest frame
C22_Witness ==
    /\ issued = 2
    /\ Len(inflight) = 1
    /\ Len(inflight[1].frames) = DefaultMaxFrames
    /\ buffer[1].timestamp > StartTime

\* C23: every capture tick of an active session offers the frame to addFrame,
\* whose own throttle is the only gate: a tick that comes frameInterval or
\* more after the last capture reaches addFrame, which stamps the capture
\* time, also while a request is in flight
C23_EveryTickOffered ==
    [][IsTick /\ isCameraActive /\ ~Throttled => lastCaptureTime' = now]_vars

\* the loops whose captureFrame is awaiting detectPose
PosePending == {l \in 1..MaxSessions : loops[l] = "suspended"}

\* a detectPose call is started
IsPoseSample == lastPoseDetectionTime' # lastPoseDetectionTime

\* C24: pose sampling and buffer pushes do not block each other: a loop whose
\* pose detection is pending has its next tick registered all the same, a
\* request in flight does not hold back a pose sample that is due, detectPose
\* calls start at least 100 ms apart and at most one is outstanding
C24_PoseAndPushIndependent ==
    /\ [](\A l \in PosePending : loops[l] = "scheduled")
    /\ [](Cardinality(PosePending) <= 1)
    /\ [][/\ IsPoseSample =>
                lastPoseDetectionTime' - lastPoseDetectionTime >= POSE_DETECTION_INTERVAL
          /\ IsTick /\ PoseDue => IsPoseSample]_vars

----------------------------------------------------------------------------
(* The pose detector as a resource *)

\* a detector is constructed
IsConstruction == Len(detectors') > Len(detectors)

\* disposePoseDetector() ran with no initialisation under way, and the
\* dispose() of the detector it held, if any, did not throw
IsSettledDispose ==
    /\ disposeCalls' = disposeCalls + 1
    /\ RunningAttempts = {}
    /\ Live \subseteq {detector}
    /\ detector # 0 => detectors'[detector].disposed

\* C25: at most one pose detector is live at any time: no detector is
\* constructed while an earlier one is undisposed, and a dispose with no
\* work pending leaves none
C25_AtMostOneLiveDetector ==
    /\ [](Cardinality(Live) <= 1)
    /\ [][/\ IsConstruction => Live = {}
          /\ IsSettledDispose => Live' = {}]_vars

----------------------------------------------------------------------------
(* The motion score *)

\* an addFrame call appended its frame
IsAccept ==
    /\ lastCaptureTime' = now
    /\ lastCaptureTime # now
    /\ Len(buffer') > 0
    /\ buffer'[Len(buffer')].timestamp = now

\* the grayscale values, means of R, G and B, differ by more than 30
MeansDifferBeyondThreshold(p1, p2) ==
    Abs((p1[1] + p1[2] + p1[3]) - (p2[1] + p2[2] + p2[3])) > 3 * PixelThreshold

\* the score as the fraction <<changed pixels, pixels>>, 1.0 for two sizes
ScoreOfMeans(frame1, frame2) ==
    IF frame1.width # frame2.width \/ frame1.height # frame2.height
    THEN <<1, 1>>
    ELSE <<Cardinality({i \in 1..Len(frame1.data) :
                          MeansDifferBeyondThreshold(frame1.data[i], frame2.data[i])}),
           Len(frame1.data)>>

\* C26: an accepted addFrame on a non-empty buffer sets hasSignificantMotion
\* exactly when the share of pixels whose grayscale value differs by more
\* than 30 from the last buffered frame (1.0 for frames of two sizes) is
\* strictly greater than motionThreshold; the first frame of an empty buffer
\* never sets it
C26_MotionScoreSetsFlag ==
    [][IsAccept =>
          LET score == ScoreOfMeans(buffer[Len(buffer)].imageData,
                                    buffer'[Len(buffer')].imageData)
          IN  hasSignificantMotion' =
                  \/ hasSignificantMotion
                  \/ /\ Len(buffer) > 0
                     /\ score[1] * 100 > motionThreshold * score[2]]_vars

----------------------------------------------------------------------------
(* The session state after a stop *)

\* the session was ended by handleStop and none was started since
Stopped == ~isCameraActive /\ teardown = TeardownOnStop

\* C27: once the session is stopped the frame window is empty with the motion
\* flag cleared, the history is empty, the prediction null, the counter 0 and
\* the remembered label none, and they stay so until the next handleStart: a
\* result arriving after the stop for a request issued before it writes none
\* of them
C27_StoppedStaysReset ==
    /\ [](Stopped =>
            /\ buffer = <<>>
            /\ ~hasSignificantMotion
            /\ confidenceHistory = <<>>
            /\ prediction = NoPrediction
            /\ timeCounterRef = 0
            /\ lastActionRef = "null")
    /\ [][Stopped /\ IsSettle =>
            UNCHANGED <<prediction, confidenceHistory, timeCounterRef, lastActionRef,
                        hasSignificantMotion, ttsCalls>>]_vars

----------------------------------------------------------------------------
(* getFrames as a query *)

\* getFrames() was called
IsGetFrames == last'.op = "getFrames"

\* C28: getFrames() is read-only: it leaves the frames of the buffer and their
\* number, hasSignificantMotion and the value of isReady() as they were, so
\* a partly filled buffer does not count as full afterwards
C28_GetFramesReadOnly ==
    [][IsGetFrames =>
          /\ buffer' = buffer
          /\ hasSignificantMotion' = hasSignificantMotion
          /\ isReady' = isReady]_vars

\* ---------------------------------------------------------------------
\* C29

\* a step that is a call of stopAudio()
IsStopAudio == stops' = stops + 1

\* what sounds: the Audio elements that play and the utterance being spoken
Silent == PlayingAudios = {} /\ Speaking = {}

\* nothing is playing, starting to play, spoken or waiting to be spoken
NothingPlaying ==
    /\ \A a \in 1..Len(audios) : audios[a].state \notin {"starting", "playing"}
    /\ \A u \in 1..Len(utterances) : utterances[u].state \notin {"speaking", "queued"}

\* call c of speakActionFeedback was made after the latest stopAudio()
CalledSinceStop(c) == speaks'[c].stopsBefore = stops'

\* C29: stopAudio() silences the player: when it returns nothing sounds, and
\* afterwards no Audio element starts to sound and no utterance starts to be
\* spoken except for a speakActionFeedback call made after the stop, also
\* when an earlier call was awaiting generateAudio or about to fall back;
\* stopAudio() with nothing playing leaves the elements, the utterances and
\* the calls as they were.
C29_StopAudioSilences ==
    [][/\ IsStopAudio => (PlayingAudios' = {} /\ Speaking' = {})
       /\ IsStopAudio /\ NothingPlaying => UNCHANGED <<audios, utterances, speaks>>
       /\ \A a \in 1..Len(audios') :
              (audios'[a].state = "playing" /\ a \notin PlayingAudios)
              => CalledSinceStop(audios'[a].by)
       /\ \A u \in 1..Len(utterances') :
              (utterances'[u].state = "speaking" /\ u \notin Speaking)
              => CalledSinceStop(utterances'[u].by)]_vars

\* ---------------------------------------------------------------------
\* C30

\* nothing is pending: no startCamera awaits getUserMedia, no captureFrame
\* awaits detectPose, no predictLive request is out
PendingSettled ==
    /\ \A l \in 1..MaxSessions : loops[l] \notin {"starting", "suspended"}
    /\ inflight = <<>>

\* a step in which startCamera stores the stream it was given:
\* streamRef.current = stream
IsStreamStored == \E l \in 1..MaxSessions : loops[l] = "starting" /\ loops'[l] = "scheduled"

\* C30: the camera stream is released on deactivation for every
\* interleaving: with the session deactivated and pending work settled no
\* acquired MediaStream has running tracks, also when the stop came while
\* startCamera awaited getUserMedia; and on a restart the stream of the
\* previous activation is stopped before or when the new one is stored (no
\* running stream is held when a stream is stored), so that no stream runs
\* without a reference to it.
C30_StreamReleased ==
    /\ []((~isCameraActive /\ PendingSettled) => ~streaming)
    /\ [][IsStreamStored => ~streaming]_vars

====
